---------------------------- MODULE Spec2Model ----------------------------
(***************************************************************************)
(* De Bruijn graph construction of fasta.py.                               *)
(*                                                                         *)
(* Strings are sequences of one-character strings.  The graph G is the     *)
(* networkx DiGraph of the program: G.nodes is the node dictionary in      *)
(* insertion order, G.edges the adjacency entries in insertion order.      *)
(*                                                                         *)
(* Spec     drives add_sequence_to_graph directly, one call per record.    *)
(* SpecFile drives it through build_de_bruijn_graph reading a FASTA file.  *)
(***************************************************************************)
EXTENDS Integers, Sequences, FiniteSets, TLC

\* ---------------------------------------------------------------- bounds
MaxSeqLen == 3
MaxRecords == 2
MaxK == 3
NegK == 1
MaxNumNodes == 2
NegNumNodes == 1
MaxLines == 3
MaxLineLen == 3

Alphabet == {"A", "C"}
Whitespace == {" ", "\n"}
FileAlphabet == {"A", " ", ">"}

KValues == (0 - NegK)..MaxK
NumNodesValues == (0 - NegNumNodes)..MaxNumNodes

SeqsUpTo(S, n) == UNION {[1..m -> S] : m \in 0..n}

Sequences_ == SeqsUpTo(Alphabet, MaxSeqLen)
\* a line as the file iterator yields it: its content and the newline
FileLines == {c \o <<"\n">> : c \in SeqsUpTo(FileAlphabet, MaxLineLen)}

\* ------------------------------------------------------- python helpers
\* s[a:b] for integers a, b: negative indices count from the end, and both
\* are clamped to 0..len(s)
SliceIndex(x, n) ==
    IF x < 0 THEN (IF x + n < 0 THEN 0 ELSE x + n)
    ELSE IF x > n THEN n ELSE x

PySlice(s, a, b) ==
    LET lo == SliceIndex(a, Len(s))
        hi == SliceIndex(b, Len(s))
    IN  IF lo < hi THEN SubSeq(s, lo + 1, hi) ELSE <<>>

\* range(len(seq) - k + 1) runs i = 0 .. RangeStop - 1
RangeStopShort(s, kk) == Len(s) - kk
RangeStopLong(s, kk) == Len(s) - kk + 2
RangeStop(s, kk) == Len(s) - kk + 1

\* kmer = seq[i:i+k]
Kmer(s, j, kk) == PySlice(s, j, j + kk)

\* prefix = kmer[:-1]
Prefix(kmer) == PySlice(kmer, 0, -1)

\* suffix = kmer[1:]
SuffixUntrimmed(kmer) == kmer
Suffix(kmer) == PySlice(kmer, 1, Len(kmer))

\* line.startswith('>')
StartsWithMarker(line) == Len(line) > 0 /\ line[1] = ">"

\* line.strip(): leading and trailing whitespace removed
RECURSIVE LStrip(_)
LStrip(s) == IF s # <<>> /\ Head(s) \in Whitespace THEN LStrip(Tail(s)) ELSE s

RECURSIVE RStrip(_)
RStrip(s) ==
    IF s # <<>> /\ s[Len(s)] \in Whitespace
    THEN RStrip(SubSeq(s, 1, Len(s) - 1)) ELSE s

Strip(s) == RStrip(LStrip(s))

\* ------------------------------------------------------------ the graph
EmptyGraph == [nodes |-> <<>>, edges |-> <<>>]

InSeq(x, s) == \E j \in DOMAIN s : s[j] = x

NodeSet(g) == {g.nodes[j] : j \in DOMAIN g.nodes}
EdgeSet(g) == {g.edges[j] : j \in DOMAIN g.edges}

\* G.add_node(n): a node already present is kept where it is
AddNode(ns, n) == IF InSeq(n, ns) THEN ns ELSE Append(ns, n)

\* G.add_edge(u, v) of a DiGraph: both endpoints are created when absent,
\* and the adjacency entry (u, v) is created when absent; an entry already
\* present is kept (its empty attribute dictionary is updated with nothing)
AddEdgeNoTarget(g, u, v) ==
    [nodes |-> AddNode(g.nodes, u),
     edges |-> IF InSeq(<<u, v>>, g.edges) THEN g.edges
               ELSE Append(g.edges, <<u, v>>)]
AddEdgeDuplicate(g, u, v) ==
    [nodes |-> AddNode(AddNode(g.nodes, u), v),
     edges |-> Append(g.edges, <<u, v>>)]
AddEdgeSingleSuccessor(g, u, v) ==
    [nodes |-> AddNode(AddNode(g.nodes, u), v),
     edges |-> Append(SelectSeq(g.edges, LAMBDA e : e[1] # u), <<u, v>>)]
AddEdge(g, u, v) ==
    [nodes |-> AddNode(AddNode(g.nodes, u), v),
     edges |-> IF InSeq(<<u, v>>, g.edges) THEN g.edges
               ELSE Append(g.edges, <<u, v>>)]

\* G.number_of_nodes(), G.number_of_edges(), G.number_of_edges(u, v)
NumberOfNodes(g) == Len(g.nodes)
NumberOfEdges(g) == Len(g.edges)
Multiplicity(g, e) == Cardinality({j \in DOMAIN g.edges : g.edges[j] = e})

\* one iteration of the loop of add_sequence_to_graph
AddKmer(g, s, j, kk) ==
    AddEdge(g, Prefix(Kmer(s, j, kk)), Suffix(Kmer(s, j, kk)))

\* add_sequence_to_graph(seq, G, k) as a whole: iterations j .. RangeStop-1
RECURSIVE AddFrom(_, _, _, _)
AddFrom(g, s, j, kk) ==
    IF j < RangeStop(s, kk) THEN AddFrom(AddKmer(g, s, j, kk), s, j + 1, kk)
    ELSE g

AddSequenceToGraph(s, g, kk) == AddFrom(g, s, 0, kk)

\* list(G.nodes())[:num_nodes] and G.subgraph(...) of visualize_graph
SubgraphOf(g, ns) ==
    [nodes |-> ns,
     edges |-> SelectSeq(g.edges, LAMBDA e : InSeq(e[1], ns) /\ InSeq(e[2], ns))]

SampleOffByOne(g, n) ==
    IF NumberOfNodes(g) > n THEN SubgraphOf(g, PySlice(g.nodes, 0, n + 1)) ELSE g
Sample(g, n) ==
    IF NumberOfNodes(g) > n THEN SubgraphOf(g, PySlice(g.nodes, 0, n)) ELSE g

\* ---------------------------------------------------------------- state
VARIABLES
    k,         \* the window length given to every call
    G,         \* the graph under construction
    pc,        \* "idle" | "read" | "loop" | "done" | "shown"
    ret,       \* where add_sequence_to_graph returns to
    seq,       \* add_sequence_to_graph: its argument seq
    i,         \* add_sequence_to_graph: the loop variable
    kmers,     \* the k-mers the current call has processed, in order
    records,   \* the arguments of the calls made so far, in order
    obs,       \* the number of G.add_edge calls made so far
    lines,     \* build_de_bruijn_graph: the lines read so far
    buf,       \* build_de_bruijn_graph: its local seq
    num_nodes, \* visualize_graph: its argument
    subgraph   \* visualize_graph: the graph it draws

vars == <<k, G, pc, ret, seq, i, kmers, records, obs, lines, buf,
          num_nodes, subgraph>>

fileVars == <<lines, buf>>
viewVars == <<num_nodes, subgraph>>

InitCommon ==
    /\ k \in KValues
    /\ G = EmptyGraph
    /\ ret = "idle"
    /\ seq = <<>>
    /\ i = 0
    /\ kmers = <<>>
    /\ records = <<>>
    /\ obs = 0
    /\ lines = <<>>
    /\ buf = <<>>
    /\ num_nodes = 0
    /\ subgraph = EmptyGraph

Init == InitCommon /\ pc = "idle"

InitFile == InitCommon /\ pc = "read"

\* entry of add_sequence_to_graph(s, G, k), to return to r
Enter(s, r) ==
    /\ pc' = "loop"
    /\ ret' = r
    /\ seq' = s
    /\ i' = 0
    /\ kmers' = <<>>
    /\ records' = Append(records, s)
    /\ UNCHANGED <<k, G, obs>>

\* a caller ingests one more record into the graph
Call ==
    /\ pc = "idle"
    /\ Len(records) < MaxRecords
    /\ \E s \in Sequences_ : Enter(s, "idle")
    /\ UNCHANGED <<fileVars, viewVars>>

\* one iteration of the loop: the k-mer at i becomes an edge
Step ==
    /\ pc = "loop"
    /\ i < RangeStop(seq, k)
    /\ G' = AddKmer(G, seq, i, k)
    /\ kmers' = Append(kmers, Kmer(seq, i, k))
    /\ obs' = obs + 1
    /\ i' = i + 1
    /\ UNCHANGED <<k, pc, ret, seq, records, fileVars, viewVars>>

\* the loop is exhausted and the call returns
Return ==
    /\ pc = "loop"
    /\ ~(i < RangeStop(seq, k))
    /\ pc' = ret
    /\ UNCHANGED <<k, G, ret, seq, i, kmers, records, obs, fileVars, viewVars>>

\* build_de_bruijn_graph reads a header line
ReadHeader ==
    /\ pc = "read"
    /\ Len(lines) < MaxLines
    /\ \E line \in FileLines :
        /\ StartsWithMarker(line)
        /\ lines' = Append(lines, line)
        /\ buf' = <<>>
        /\ IF buf # <<>>
           THEN Enter(buf, "read")
           ELSE UNCHANGED <<k, G, pc, ret, seq, i, kmers, records, obs>>
    /\ UNCHANGED viewVars

\* build_de_bruijn_graph reads any other line
ReadBody ==
    /\ pc = "read"
    /\ Len(lines) < MaxLines
    /\ \E line \in FileLines :
        /\ ~StartsWithMarker(line)
        /\ lines' = Append(lines, line)
        /\ buf' = buf \o Strip(line)
    /\ UNCHANGED <<k, G, pc, ret, seq, i, kmers, records, obs, viewVars>>

\* the file ends: the last sequence is added and G is returned
EndOfFile ==
    /\ pc = "read"
    /\ IF buf # <<>>
       THEN Enter(buf, "done")
       ELSE /\ pc' = "done"
            /\ UNCHANGED <<k, G, ret, seq, i, kmers, records, obs>>
    /\ UNCHANGED <<fileVars, viewVars>>

\* visualize_graph(G, n) selects the subgraph it draws
Visualize ==
    /\ pc \in {"idle", "done"}
    /\ \E n \in NumNodesValues :
        /\ num_nodes' = n
        /\ subgraph' = Sample(G, n)
    /\ pc' = "shown"
    /\ UNCHANGED <<k, G, ret, seq, i, kmers, records, obs, fileVars>>

Next == Call \/ Step \/ Return \/ Visualize

NextFile == ReadHeader \/ ReadBody \/ EndOfFile \/ Step \/ Return \/ Visualize

Spec == Init /\ [][Next]_vars

SpecFile == InitFile /\ [][NextFile]_vars

\* ------------------------------------------------- what the claims use
Min(a, b) == IF a < b THEN a ELSE b
Max(a, b) == IF a > b THEN a ELSE b

RECURSIVE SumLen(_)
SumLen(rs) == IF rs = <<>> THEN 0 ELSE Len(Head(rs)) + SumLen(Tail(rs))

\* the windows of length kk of s, as (start, window) with start from 1
Windows(s, kk) == {<<j, SubSeq(s, j, j + kk - 1)>> : j \in 1..(Len(s) - kk + 1)}

\* the occurrences, over all records, of the k-mer of edge e
Occurrences(rs, kk, e) ==
    UNION {{<<r, w[1]>> : w \in {w \in Windows(rs[r], kk) :
                                   /\ SubSeq(w[2], 1, kk - 1) = e[1]
                                   /\ SubSeq(w[2], 2, kk) = e[2]}} :
           r \in DOMAIN rs}

IsSubstring(n, s) == \E j \in 1..(Len(s) - Len(n) + 1) : SubSeq(s, j, j + Len(n) - 1) = n

SameGraph(g, h) == NodeSet(g) = NodeSet(h) /\ EdgeSet(g) = EdgeSet(h)

\* the graph of ingesting the records rs in order into a fresh graph
RECURSIVE BuildFrom(_, _, _)
BuildFrom(g, rs, kk) ==
    IF rs = <<>> THEN g
    ELSE BuildFrom(AddSequenceToGraph(Head(rs), g, kk), Tail(rs), kk)

BuildGraph(rs, kk) == BuildFrom(EmptyGraph, rs, kk)

Permute(rs, p) == [j \in DOMAIN rs |-> rs[p[j]]]

\* the k-mers of s inserted in the order given: order[j] - 1 is the j-th index
RECURSIVE AddInOrder(_, _, _, _)
AddInOrder(g, s, kk, order) ==
    IF order = <<>> THEN g
    ELSE AddInOrder(AddKmer(g, s, Head(order) - 1, kk), s, kk, Tail(order))

\* ---------------------------------------------------------------- C1
\* C1: after ingesting records with k >= 2 into a fresh graph, every edge
\* carries a multiplicity equal to the number of occurrences of its k-mer
\* over all ingested records.
C1_MultiplicityCountsOccurrences ==
    (pc = "idle" /\ k >= 2) =>
        \A e \in EdgeSet(G) :
            Multiplicity(G, e) = Cardinality(Occurrences(records, k, e))

\* ---------------------------------------------------------------- C2
\* C2: for every k < 2 ingestion fails eagerly with InvalidParameter: no
\* record is processed (no k-mer is taken, G.add_edge is never called) and
\* the graph keeps no node or edge of the call.
C2_InvalidKRejectedEagerly ==
    (k < 2) => (kmers = <<>> /\ obs = 0 /\ G = EmptyGraph)

\* ---------------------------------------------------------------- C3
\* C3: in every reachable state, also between two k-mer insertions and
\* between two records, both endpoints of every edge are nodes of the graph.
C3_EdgeEndpointsAreNodes ==
    \A e \in EdgeSet(G) : e[1] \in NodeSet(G) /\ e[2] \in NodeSet(G)

C3_Witness ==
    /\ pc = "loop"
    /\ i > 0
    /\ i < RangeStop(seq, k)
    /\ Len(records) = 2
    /\ Len(G.edges) >= 2

\* ---------------------------------------------------------------- C4
\* C4: for k >= 2 a call processes exactly max(0, len(s) - k + 1) k-mers,
\* s[i:i+k] for i = 0 .. len(s) - k from left to right (at every moment the
\* first i of them), and records shorter than k add no node and no edge.
C4_WindowCount ==
    (k >= 2 /\ Len(records) > 0) =>
        /\ Len(kmers) <= Max(0, Len(seq) - k + 1)
        /\ Len(kmers) = i
        /\ pc # "loop" => Len(kmers) = Max(0, Len(seq) - k + 1)
        /\ \A j \in DOMAIN kmers : kmers[j] = SubSeq(seq, j, j + k - 1)
        /\ (\A r \in DOMAIN records : Len(records[r]) < k) => G = EmptyGraph

C4_Witness ==
    /\ pc = "idle"
    /\ k = 2
    /\ Len(records) = 2
    /\ Len(records[1]) = 1
    /\ Len(seq) = 3
    /\ Len(kmers) = 2
    /\ kmers[1] # kmers[2]

\* ---------------------------------------------------------------- C5
\* C5: for k >= 2 every edge (from, to) comes from a k-mer of an ingested
\* record: from is the k-mer without its last symbol, to the k-mer without
\* its first symbol, from followed by the k-mer's last symbol is the k-mer;
\* every node is a substring of length k-1 of an ingested record.
C5_EdgeEndpointLaw ==
    (k >= 2) =>
        /\ \A e \in EdgeSet(G) :
            \E r \in DOMAIN records : \E w \in Windows(records[r], k) :
                /\ e[1] = SubSeq(w[2], 1, k - 1)
                /\ e[2] = SubSeq(w[2], 2, k)
                /\ e[1] \o <<w[2][k]>> = w[2]
                /\ Len(e[1]) = k - 1 /\ Len(e[2]) = k - 1
        /\ \A n \in NodeSet(G) :
            /\ Len(n) = k - 1
            /\ \E r \in DOMAIN records : IsSubstring(n, records[r])

C5_Witness ==
    /\ pc = "idle"
    /\ k = 3
    /\ Len(records) = 2
    /\ Len(G.edges) = 2
    /\ Len(G.nodes) = 3

\* ---------------------------------------------------------------- C6
\* the sampling law for the n given: the subgraph has min(n, node_count)
\* nodes, the first n nodes of G in insertion order, and exactly the edges of
\* G with both endpoints among them
SamplingLaw ==
    LET m == Min(num_nodes, NumberOfNodes(G))
        first == SubSeq(G.nodes, 1, m)
    IN  /\ NumberOfNodes(subgraph) = m
        /\ subgraph.nodes = first
        /\ EdgeSet(subgraph) =
             {e \in EdgeSet(G) : InSeq(e[1], first) /\ InSeq(e[2], first)}
        /\ NumberOfEdges(subgraph) = Cardinality(EdgeSet(subgraph))
        /\ num_nodes >= NumberOfNodes(G) => subgraph = G
        /\ num_nodes = 0 => subgraph = EmptyGraph

SizeBounds ==
    /\ NumberOfNodes(G) <= SumLen(records) - (k - 2) * Len(records)
    /\ obs <= SumLen(records) - (k - 1) * Len(records)
    /\ NumberOfEdges(G) <= obs

\* C7 as stated: after ingesting records of any lengths with k >= 2 the size
\* bounds hold.  (Stated for the non-empty records build_de_bruijn_graph
\* passes on; an empty record refutes it as well.)
C7_SizeBoundsAnyLength ==
    (pc = "idle" /\ k >= 2 /\ \A r \in DOMAIN records : records[r] # <<>>)
        => SizeBounds

\* C7 amended: the bounds hold when every record has length at least k-1.
C7_SizeBoundsLongRecords ==
    (pc = "idle" /\ k >= 2 /\ \A r \in DOMAIN records : Len(records[r]) >= k - 1)
        => SizeBounds

C7_Witness ==
    /\ pc = "idle"
    /\ k = 3
    /\ Len(records) = 2
    /\ Len(records[1]) = 2
    /\ obs > 0
    /\ obs = SumLen(records) - (k - 1) * Len(records)

\* ---------------------------------------------------------------- C8
\* a sequence that was ingested before is being ingested again
Reingesting == pc = "loop" /\ \E j \in 1..(Len(records) - 1) : records[j] = seq

ShapeKept ==
    /\ NodeSet(G) \subseteq NodeSet(G')
    /\ EdgeSet(G) \subseteq EdgeSet(G')
    /\ NumberOfEdges(G') = Cardinality(EdgeSet(G'))
    /\ Reingesting =>
        /\ NodeSet(G') = NodeSet(G)
        /\ EdgeSet(G') = EdgeSet(G)
        /\ NumberOfNodes(G') = NumberOfNodes(G)
        /\ NumberOfEdges(G') = NumberOfEdges(G)

\* C8: no step removes a node or an edge or creates a duplicate edge, and
\* while a sequence that was ingested before is ingested again, the node
\* set, the set of distinct edges, node_count and edge_count do not change.
C8_ShapeIdempotent == [][ShapeKept]_vars

C8_Witness ==
    /\ Reingesting
    /\ i = RangeStop(seq, k)
    /\ i >= 2
    /\ NumberOfEdges(G) >= 2
    /\ k >= 2

\* ---------------------------------------------------------------- C9
\* the records of a file as C9 describes them: a header line (one starting
\* with '>') opens a record, and a record's sequence is the concatenation
\* of its body lines with all whitespace removed
RemoveWhitespace(s) == SelectSeq(s, LAMBDA c : c \notin Whitespace)

RECURSIVE SplitRecords(_, _, _)
SplitRecords(ls, cur, out) ==
    IF ls = <<>> THEN Append(out, cur)
    ELSE IF StartsWithMarker(Head(ls))
         THEN SplitRecords(Tail(ls), <<>>, Append(out, cur))
         ELSE SplitRecords(Tail(ls), cur \o RemoveWhitespace(Head(ls)), out)

NonEmpty(rs) == SelectSeq(rs, LAMBDA r : r # <<>>)

ExpectedRecords(ls) == SplitRecords(ls, <<>>, <<>>)
ClosedRecords(ls) == SubSeq(ExpectedRecords(ls), 1, Len(ExpectedRecords(ls)) - 1)

\* C9: build_de_bruijn_graph calls add_sequence_to_graph once per record, in
\* file order and before the next record is read, with the record's body
\* lines concatenated and all whitespace removed; the last record is
\* ingested at end of file.  (A record with an empty sequence, whose call
\* would find no k-mer, is allowed here to be skipped.)
C9_OneCallPerRecord ==
    /\ pc = "read" => records = NonEmpty(ClosedRecords(lines))
    /\ pc \in {"done", "shown"} => records = NonEmpty(ExpectedRecords(lines))
    /\ \A r \in DOMAIN records : \A j \in DOMAIN records[r] :
           records[r][j] \notin Whitespace

\* --------------------------------------------------------------- C10
\* C10: for k >= 2 the graph does not depend on the order of ingestion:
\* after every record, ingesting the records so far in any permuted order,
\* or inserting the k-mers of the last record in any order, gives the same
\* node set and the same edge set as the graph built.
C10_OrderIndependent ==
    (pc = "idle" /\ k >= 2 /\ Len(records) > 0) =>
        /\ \A p \in Permutations(DOMAIN records) :
               SameGraph(G, BuildGraph(Permute(records, p), k))
        /\ LET before == BuildGraph(SubSeq(records, 1, Len(records) - 1), k)
               n == Max(0, RangeStop(seq, k))
           IN  \A q \in Permutations(1..n) :
                   SameGraph(G, AddInOrder(before, seq, k, [j \in 1..n |-> q[j]]))

C10_Witness ==
    /\ pc = "idle"
    /\ k = 2
    /\ Len(records) = 2
    /\ NumberOfEdges(G) >= 3
    /\ BuildGraph(<<records[2], records[1]>>, k).nodes # G.nodes

=============================================================================
